---- MODULE Spec2Model ----
(***************************************************************************)
(* State-machine model of the RAG chat backend (src/backend/app):          *)
(*   - the primary datastore (MongoDB collections conversations, messages, *)
(*     documents, document_chunks, user_analytics),                        *)
(*   - the vector index (Pinecone) with its metadata filter,               *)
(*   - ConversationService (start, send_message, get, delete),             *)
(*   - DocumentProcessingService / VectorService (ingestion, search,       *)
(*     delete_document).                                                   *)
(* Every request handler is a coroutine: it is modelled as one action per  *)
(* segment between two awaits that touch shared state, so that concurrent  *)
(* requests interleave as they do on the event loop.                       *)
(***************************************************************************)
EXTENDS Integers, Sequences, FiniteSets, TLC

\* ------------------------------------------------------------------ bounds
MaxConvs == 2       \* conversations ever created in one behaviour
MaxSends == 2       \* send_message requests in one behaviour
MaxIngests == 2     \* process_document requests in one behaviour
MaxChunks == 3      \* longest chunk list the chunker returns
MaxDeletes == 1     \* delete_conversation requests served step by step

\* -------------------------------------------------------- program constants
\* settings.TOP_K_RESULTS (6 in the source), scaled to the small index.
TOP_K_RESULTS == 2
\* batch_size of generate_embeddings_batch (1000 in the source), scaled so
\* that MaxChunks chunks span more than one sub-batch.
EmbedBatchSize == 2
\* batch_size of upsert_vectors (100 in the source), scaled likewise.
UpsertBatchSize == 2
\* limit of _get_conversation_history.
HistoryLimit == 10
\* settings.MAX_FILE_SIZE_MB; file sizes are counted in MB.
MAX_FILE_SIZE_MB == 10
\* top_k of the name lookup in start_document_conversation.
NameLookupTopK == 1000

Users == {"A", "B"}
Queries == {"q1", "q2"}       \* search queries
UserMessages == {"q1"}        \* what a user sends to a conversation
ChunkTexts == {"t1", "t2", "t3"}
Filenames == {"a.txt", "b.txt"}

None == [none |-> TRUE]        \* Python's None
NoneStr == "None"

VARIABLES
    conversations,  \* collection "conversations": id -> Conversation
    messages,       \* collection "messages", in timestamp order
    analytics,      \* collection "user_analytics": user -> counters
    documents,      \* collection "documents": id -> Document
    chunks,         \* collection "document_chunks": set of DocumentChunk
    index,          \* the Pinecone index: vector id -> [values, metadata]
    clock,          \* datetime.utcnow(), ticking with every message written
    nextConv,       \* next fresh conversation ObjectId
    nextDoc,        \* next fresh document ObjectId
    sends,          \* send_message coroutines: pc and locals
    ingests,        \* process_document coroutines: pc and locals
    lastGet,        \* the last get_conversation request and its response
    lastSearch,     \* the last search request and its result
    lastCall,       \* the last direct call of a service function and its result
    deletes         \* delete_conversation coroutines: pc and locals

db == <<conversations, messages, analytics, documents, chunks>>
vars == <<conversations, messages, analytics, documents, chunks, index, clock,
          nextConv, nextDoc, sends, ingests, lastGet, lastSearch, lastCall, deletes>>

\* ------------------------------------------------------------------ helpers
Min(a, b) == IF a < b THEN a ELSE b
Max(a, b) == IF a > b THEN a ELSE b
Abs(a) == IF a < 0 THEN -a ELSE a
Range(s) == {s[i] : i \in 1..Len(s)}

\* dict.get(key) with the default None
DictGet(d, key) == IF key \in DOMAIN d THEN d[key] ELSE NoneStr

\* s[:n]
Take(s, n) == SubSeq(s, 1, Min(n, Len(s)))

\* s[-n:]
LastN(s, n) == SubSeq(s, Max(1, Len(s) - n + 1), Len(s))

RECURSIVE SelectConv(_, _)
\* Message.find(Message.conversation_id == cid).sort("timestamp")
SelectConv(msgs, cid) ==
    IF msgs = <<>> THEN <<>>
    ELSE IF Head(msgs).conversation_id = cid
         THEN <<Head(msgs)>> \o SelectConv(Tail(msgs), cid)
         ELSE SelectConv(Tail(msgs), cid)

RECURSIVE RejectConv(_, _)
\* what Message.find(Message.conversation_id == cid).delete() leaves
RejectConv(msgs, cid) ==
    IF msgs = <<>> THEN <<>>
    ELSE IF Head(msgs).conversation_id = cid
         THEN RejectConv(Tail(msgs), cid)
         ELSE <<Head(msgs)>> \o RejectConv(Tail(msgs), cid)

\* Conversation.get(id) / Document.get(id): the record or None
GetById(coll, id) == IF id \in DOMAIN coll THEN coll[id] ELSE None

\* the collection without / with one record
Without(coll, id) == [k \in DOMAIN coll \ {id} |-> coll[k]]
With(coll, id, rec) == [k \in DOMAIN coll \cup {id} |-> IF k = id THEN rec ELSE coll[k]]


\* ------------------------------------------------- embedding provider (4.2)
\* client.embeddings.create: the external model, a fixed map from text to a
\* point of the embedding space. "t1"/"q1" and "t3"/"q2" embed to the same
\* point (a question about a chunk). Whether a call succeeds is an input of
\* the caller's action (embedOK).
EmbeddingOf(text) ==
    CASE text \in {"t1", "q1"} -> 1
      [] text = "t2" -> 2
      [] text \in {"t3", "q2"} -> 3
      [] text = "LON" -> 4
      [] text = "LONG" -> 5
      [] OTHER -> 0

\* ------------------------------------------------------ vector index (4.3)
\* cosine similarity of the index, on the model's embedding space
Score(qv, v) == 10 - Abs(qv - v)

\* a vector id that leaves the document out: f"chunk_{i}"
VectorIdWithoutDocument(document_id, i) == <<0, "chunk", i>>

\* the vector id f"{document_id}_chunk_{i}"
VectorId(document_id, i) == <<document_id, "chunk", i>>

\* Pinecone's server-side metadata filter: equality on a plain value,
\* membership on {"$in": [...]}
MatchesFilter(md, filter) ==
    \A k \in DOMAIN filter :
        IF k = "document_id" THEN md[k] \in filter[k] ELSE md[k] = filter[k]

\* index.query(vector, top_k, filter): every ranking the index may return
\* (descending score, ties in any order), as lists of vector ids
Rankings(idx, qv, top_k, filter) ==
    LET ids == {id \in DOMAIN idx : MatchesFilter(idx[id].metadata, filter)}
        n == Min(top_k, Cardinality(ids))
        sc(id) == Score(qv, idx[id].values)
    IN {s \in [1..n -> ids] :
            /\ \A i, j \in 1..n : i < j => s[i] # s[j] /\ sc(s[i]) >= sc(s[j])
            /\ \A x \in ids \ Range(s) : \A i \in 1..n : sc(x) <= sc(s[i])}

\* PineconeClient.query_vectors: the possible match lists; [] when the call
\* raises
QueryVectors(idx, qv, top_k, filter, queryOK) ==
    IF ~queryOK THEN {<<>>}
    ELSE {[i \in 1..Len(s) |->
              [id |-> s[i], score |-> Score(qv, idx[s[i]].values),
               metadata |-> idx[s[i]].metadata]] :
          s \in Rankings(idx, qv, top_k, filter)}

\* the "Format results" loop of both search methods
FormatResults(results) ==
    [i \in 1..Len(results) |->
        [id |-> results[i].id, score |-> results[i].score,
         text |-> DictGet(results[i].metadata, "text"),
         metadata |-> results[i].metadata]]

\* search_similar_content with the user filter left out of the query
SearchSimilarContentNoFilter(idx, query, user_id, top_k, embedOK, queryOK) ==
    IF ~embedOK THEN {<<>>}
    ELSE {FormatResults(r) :
          r \in QueryVectors(idx, EmbeddingOf(query), top_k, <<>>, queryOK)}

\* VectorService.search_similar_content: the possible results; [] when the
\* query embedding raises
SearchSimilarContent(idx, query, user_id, top_k, embedOK, queryOK) ==
    IF ~embedOK THEN {<<>>}
    ELSE {FormatResults(r) :
          r \in QueryVectors(idx, EmbeddingOf(query), top_k,
                             [user_id |-> user_id], queryOK)}

\* search_document_scoped_content with the filter left out of the query
SearchDocumentScopedContentNoFilter(idx, query, user_id, document_ids, top_k, embedOK, queryOK) ==
    IF ~embedOK THEN {<<>>}
    ELSE {FormatResults(r) :
          r \in QueryVectors(idx, EmbeddingOf(query), top_k, <<>>, queryOK)}

\* VectorService.search_document_scoped_content
SearchDocumentScopedContent(idx, query, user_id, document_ids, top_k, embedOK, queryOK) ==
    IF ~embedOK THEN {<<>>}
    ELSE {FormatResults(r) :
          r \in QueryVectors(idx, EmbeddingOf(query), top_k,
                             [user_id |-> user_id,
                              document_id |-> Range(document_ids)], queryOK)}


\* ------------------------------------------------ conversation manager (4.6)
\* Conversation(...) as the service constructs it. The service passes and
\* reads chat_type, selected_document_ids and document_names; a conversation
\* started without them reads as "universal" with no documents.
NewConversation(user_id, now, chat_type, document_ids, document_names) ==
    [user_id |-> user_id, message_count |-> 0, last_message_at |-> now,
     chat_type |-> chat_type, selected_document_ids |-> document_ids,
     document_names |-> document_names]

\* Message(...)
NewMessage(cid, role, content, now, sources) ==
    [conversation_id |-> cid, role |-> role, content |-> content,
     timestamp |-> now, sources |-> sources]

\* ConversationService._update_user_analytics
UpdateUserAnalytics(an, user_id, action) ==
    [an EXCEPT ![user_id] =
        CASE action = "conversation_created" ->
                [@ EXCEPT !.total_conversations = @ + 1]
          [] action = "message_sent" ->
                [@ EXCEPT !.total_messages = @ + 1]
          [] action = "conversation_deleted" ->
                [@ EXCEPT !.total_conversations = Max(0, @ - 1)]
          [] OTHER -> @]

\* the route's mapping of a raised exception: ValueError -> 404 with
\* detail = str(e), anything else -> 500 with a fixed detail
HttpError(kind, text, fallback) ==
    IF kind = "ValueError" THEN [status |-> 404, detail |-> text]
    ELSE [status |-> 500, detail |-> fallback]

\* the access check of send_message with get_conversation's two messages
SendAccessErrorLeaky(conversation, user_id) ==
    IF conversation = None THEN "Conversation not found"
    ELSE IF conversation.user_id # user_id
         THEN "Conversation not found or access denied"
         ELSE NoneStr

\* send_message, lines 144-147: the exception raised for this caller, or None
SendAccessError(conversation, user_id) ==
    IF conversation = None \/ conversation.user_id # user_id
    THEN "Conversation not found or access denied"
    ELSE NoneStr

\* get_conversation, lines 212-222: the exception raised, or None
GetAccessError(conversation, user_id) ==
    IF conversation = None THEN "Conversation not found"
    ELSE IF conversation.user_id # user_id
         THEN "Conversation not found or access denied"
         ELSE NoneStr

\* ConversationService.get_conversation behind its route: the response
GetConversation(convs, msgs, cid, user_id) ==
    LET conversation == GetById(convs, cid)
        err == GetAccessError(conversation, user_id)
    IN IF err # NoneStr
       THEN HttpError("ValueError", err, "Failed to get conversation")
       ELSE [status |-> 200,
             message_count |-> conversation.message_count,
             messages |-> SelectConv(msgs, cid)]

\* ConversationService._get_conversation_history: the last `limit` messages
\* of the conversation, oldest first, as {role, content}
GetConversationHistory(msgs, cid, limit) ==
    LET recent == LastN(SelectConv(msgs, cid), limit)
    IN [i \in 1..Len(recent) |->
           [role |-> recent[i].role, content |-> recent[i].content]]

\* the sources loop of _process_rag_query: reads the keys off the result
SourcesOfRag(results) ==
    [i \in 1..Len(results) |->
        [document_id |-> DictGet(results[i], "document_id"),
         filename |-> DictGet(results[i], "filename"),
         chunk_index |-> DictGet(results[i], "chunk_index"),
         score |-> DictGet(results[i], "score")]]

\* the sources loop of _process_document_rag_query: reads result["metadata"]
SourcesOfDocumentRag(results) ==
    [i \in 1..Len(results) |->
        [document_id |-> DictGet(results[i].metadata, "document_id"),
         filename |-> DictGet(results[i].metadata, "filename"),
         chunk_index |-> DictGet(results[i].metadata, "chunk_index"),
         score |-> DictGet(results[i], "score")]]

\* the context string both loops build
ContextOf(results) == [i \in 1..Len(results) |-> results[i].text]

\* send_message, lines 161-167: which retrieval runs, and its possible
\* outcomes {context, sources}
Retrieval(idx, conversation, query, user_id, embedOK, queryOK) ==
    IF conversation.chat_type = "document"
       /\ conversation.selected_document_ids # <<>>
    THEN {[context |-> ContextOf(r), sources |-> SourcesOfDocumentRag(r)] :
          r \in SearchDocumentScopedContent(idx, query, user_id,
                    conversation.selected_document_ids, TOP_K_RESULTS,
                    embedOK, queryOK)}
    ELSE {[context |-> ContextOf(r), sources |-> SourcesOfRag(r)] :
          r \in SearchSimilarContent(idx, query, user_id, TOP_K_RESULTS,
                                     embedOK, queryOK)}

IdleSend ==
    [pc |-> "idle", conversation_id |-> 0, user_id |-> "", user_message |-> "",
     conversation |-> None, access |-> "", user_msg |-> 0, retrieval |-> "",
     llm |-> "",
     rag_response |-> None, response |-> None]


IdleDelete ==
    [pc |-> "idle", conversation_id |-> 0, user_id |-> "", access |-> "",
     response |-> None]

\* the retrieval outcome a send saw, kept with its locals (as is the outcome
\* of its LLM call, llm)
RetrievalKind(embedOK, queryOK, sources) ==
    IF ~embedOK THEN "embed_failed"
    ELSE IF ~queryOK THEN "query_failed"
    ELSE IF sources = <<>> THEN "empty" ELSE "hits"

\* doc_id[:8], the first 8 characters of an id (of an ObjectId, the second
\* it was created in): ids 1 and 2 share them, ids 3 and 4 do, ...
Prefix8(doc_id) == (doc_id + 1) \div 2

\* the name a scoped conversation shows for a document that was not found:
\* f"Document {doc_id[:8]}"
PlaceholderName(doc_id) ==
    CASE Prefix8(doc_id) = 1 -> "Document 1"
      [] Prefix8(doc_id) = 2 -> "Document 2"
      [] Prefix8(doc_id) = 3 -> "Document 3"
      [] OTHER -> "Document 4"

\* the names of start_document_conversation without the placeholder: a
\* document that was not found gets no entry
DocumentNamesFoundOnly(results, document_ids, lookupOK) ==
    LET found == SelectSeq(document_ids,
                     LAMBDA d : \E k \in 1..Len(results) :
                                   results[k].metadata.document_id = d)
    IN [i \in 1..Len(found) |->
           LET k == CHOOSE k \in 1..Len(results) :
                        results[k].metadata.document_id = found[i]
           IN results[k].metadata.filename]

\* start_document_conversation, lines 66-91: the names for document_ids
DocumentNames(results, document_ids, lookupOK) ==
    IF ~lookupOK
    THEN [i \in 1..Len(document_ids) |-> PlaceholderName(document_ids[i])]
    ELSE [i \in 1..Len(document_ids) |->
            IF \E k \in 1..Len(results) :
                   results[k].metadata.document_id = document_ids[i]
            THEN LET k == CHOOSE k \in 1..Len(results) :
                            /\ results[k].metadata.document_id = document_ids[i]
                            /\ \A m \in (k+1)..Len(results) :
                                 results[m].metadata.document_id # document_ids[i]
                 IN results[k].metadata.filename
            ELSE PlaceholderName(document_ids[i])]

\* ---------------------------------------------------------- chat actions
\* ConversationService.start_conversation
StartConversation(u) ==
    /\ nextConv <= MaxConvs
    /\ conversations' = With(conversations, nextConv,
                             NewConversation(u, clock, "universal", <<>>, <<>>))
    /\ analytics' = UpdateUserAnalytics(analytics, u, "conversation_created")
    /\ nextConv' = nextConv + 1
    /\ UNCHANGED <<messages, documents, chunks, index, clock, nextDoc, sends,
                   ingests, lastGet, lastSearch, lastCall, deletes>>

\* ConversationService.start_document_conversation
StartDocumentConversation(u, document_ids, embedOK, queryOK) ==
    /\ nextConv <= MaxConvs
    /\ \E results \in SearchSimilarContent(index, "", u, NameLookupTopK,
                                           embedOK, queryOK) :
         conversations' = With(conversations, nextConv,
             NewConversation(u, clock, "document", document_ids,
                             DocumentNames(results, document_ids, TRUE)))
    /\ analytics' = UpdateUserAnalytics(analytics, u, "conversation_created")
    /\ nextConv' = nextConv + 1
    /\ UNCHANGED <<messages, documents, chunks, index, clock, nextDoc, sends,
                   ingests, lastGet, lastSearch, lastCall, deletes>>

\* send_message, lines 142-147: Conversation.get and the access check. A
\* rejected call keeps which test rejected it (access) and its response.
SendGet(r, cid, u, q) ==
    /\ sends[r].pc = "idle"
    /\ \A r2 \in 1..(r - 1) : sends[r2].pc # "idle"
    /\ LET conversation == GetById(conversations, cid)
           err == SendAccessError(conversation, u)
       IN sends' = [sends EXCEPT ![r] =
             IF err = NoneStr
             THEN [@ EXCEPT !.pc = "insert_user", !.conversation_id = cid,
                            !.user_id = u, !.user_message = q,
                            !.conversation = conversation, !.access = "ok"]
             ELSE [@ EXCEPT !.pc = "rejected", !.conversation_id = cid,
                            !.user_id = u,
                            !.access = IF conversation = None THEN "absent"
                                       ELSE "foreign",
                            !.response = HttpError("ValueError", err,
                                                   "Failed to send message")]]
    /\ UNCHANGED <<conversations, messages, analytics, documents, chunks, index,
                   clock, nextConv, nextDoc, ingests, lastGet, lastSearch, lastCall, deletes>>

\* send_message, lines 149-156: the user message is inserted (user_msg keeps
\* its timestamp, by which the request knows its own message)
SendInsertUser(r) ==
    /\ sends[r].pc = "insert_user"
    /\ messages' = Append(messages,
           NewMessage(sends[r].conversation_id, "user", sends[r].user_message,
                      clock, <<>>))
    /\ clock' = clock + 1
    /\ sends' = [sends EXCEPT ![r] = [@ EXCEPT !.pc = "rag", !.user_msg = clock]]
    /\ UNCHANGED <<conversations, analytics, documents, chunks, index, nextConv,
                   nextDoc, ingests, lastGet, lastSearch, lastCall, deletes>>

\* SendRag with the LLM error swallowed: the error text becomes the answer
SendRagSwallowsLlmError(r, embedOK, queryOK, llmOK) ==
    /\ sends[r].pc = "rag"
    /\ \E ret \in Retrieval(index, sends[r].conversation, sends[r].user_message,
                            sends[r].user_id, embedOK, queryOK) :
         sends' = [sends EXCEPT ![r] =
               [@ EXCEPT !.pc = "insert_assistant",
                         !.retrieval = RetrievalKind(embedOK, queryOK, ret.sources),
                         !.llm = IF llmOK THEN "ok" ELSE "failed",
                         !.rag_response = [response |-> IF llmOK THEN "answer" ELSE "error",
                                           history |-> <<>>,
                                           context |-> ret.context,
                                           sources |-> ret.sources]]]
    /\ UNCHANGED <<conversations, messages, analytics, documents, chunks, index,
                   clock, nextConv, nextDoc, ingests, lastGet, lastSearch, lastCall, deletes>>

\* SendRag with a search that lets its errors through: a failed query
\* embedding or index query ends the request before the LLM is called
SendRagFailsOnRetrievalError(r, embedOK, queryOK, llmOK) ==
    /\ sends[r].pc = "rag"
    /\ \E ret \in Retrieval(index, sends[r].conversation, sends[r].user_message,
                            sends[r].user_id, embedOK, queryOK) :
         LET kind == RetrievalKind(embedOK, queryOK, ret.sources)
         IN sends' = [sends EXCEPT ![r] =
               IF llmOK /\ embedOK /\ queryOK
               THEN [@ EXCEPT !.pc = "insert_assistant", !.retrieval = kind,
                              !.llm = "ok",
                              !.rag_response = [response |-> "answer",
                                                history |-> <<>>,
                                                context |-> ret.context,
                                                sources |-> ret.sources]]
               ELSE [@ EXCEPT !.pc = "failed", !.retrieval = kind,
                              !.llm = IF embedOK /\ queryOK THEN "failed" ELSE "",
                              !.conversation = None,
                              !.response = HttpError("Exception", "",
                                                     "Failed to send message")]]
    /\ UNCHANGED <<conversations, messages, analytics, documents, chunks, index,
                   clock, nextConv, nextDoc, ingests, lastGet, lastSearch, lastCall, deletes>>

\* send_message, lines 158-167: the history is read, then retrieval and the
\* LLM call run (_process_rag_query / _process_document_rag_query,
\* generate_response). These only read; a failed LLM call ends the request.
SendRag(r, embedOK, queryOK, llmOK) ==
    /\ sends[r].pc = "rag"
    /\ \E ret \in Retrieval(index, sends[r].conversation, sends[r].user_message,
                            sends[r].user_id, embedOK, queryOK) :
         LET history == GetConversationHistory(messages, sends[r].conversation_id,
                                               HistoryLimit)
             kind == RetrievalKind(embedOK, queryOK, ret.sources)
         IN sends' = [sends EXCEPT ![r] =
               IF llmOK
               THEN [@ EXCEPT !.pc = "insert_assistant", !.retrieval = kind,
                              !.llm = "ok",
                              !.rag_response = [response |-> "answer",
                                                history |-> history,
                                                context |-> ret.context,
                                                sources |-> ret.sources]]
               ELSE [@ EXCEPT !.pc = "failed", !.retrieval = kind,
                              !.llm = "failed",
                              !.conversation = None,
                              !.response = HttpError("Exception", "",
                                                     "Failed to send message")]]
    /\ UNCHANGED <<conversations, messages, analytics, documents, chunks, index,
                   clock, nextConv, nextDoc, ingests, lastGet, lastSearch, lastCall, deletes>>

\* SendInsertAssistant with the insert left out
SendInsertAssistantSkipped(r) ==
    /\ sends[r].pc = "insert_assistant"
    /\ sends' = [sends EXCEPT ![r].pc = "save"]
    /\ UNCHANGED <<conversations, messages, analytics, documents, chunks, index,
                   clock, nextConv, nextDoc, ingests, lastGet, lastSearch, lastCall, deletes>>

\* send_message, lines 169-182: the assistant message is inserted
SendInsertAssistant(r) ==
    /\ sends[r].pc = "insert_assistant"
    /\ messages' = Append(messages,
           NewMessage(sends[r].conversation_id, "assistant",
                      sends[r].rag_response.response, clock,
                      sends[r].rag_response.sources))
    /\ clock' = clock + 1
    /\ sends' = [sends EXCEPT ![r].pc = "save"]
    /\ UNCHANGED <<conversations, analytics, documents, chunks, index, nextConv,
                   nextDoc, ingests, lastGet, lastSearch, lastCall, deletes>>

\* send_message, lines 184-202: the counters are bumped on the object read at
\* the start and conversation.save() writes it back (an upsert), then the
\* analytics are updated and the response returned
SendSave(r) ==
    /\ sends[r].pc = "save"
    /\ LET saved == [sends[r].conversation EXCEPT
                        !.message_count = @ + 1, !.last_message_at = clock]
       IN /\ conversations' = With(conversations, sends[r].conversation_id, saved)
          /\ sends' = [sends EXCEPT ![r] =
                [@ EXCEPT !.pc = "done", !.conversation = None,
                          !.rag_response = None,
                          !.response = [status |-> 200,
                                        message |-> sends[r].rag_response.response,
                                        sources |-> sends[r].rag_response.sources]]]
    /\ analytics' = UpdateUserAnalytics(analytics, sends[r].user_id, "message_sent")
    /\ UNCHANGED <<messages, documents, chunks, index, clock, nextConv, nextDoc,
                   ingests, lastGet, lastSearch, lastCall, deletes>>

\* get_conversation behind GET /{conversation_id}
Get(cid, u) ==
    /\ lastGet' = [conversation_id |-> cid, user_id |-> u,
                   response |-> GetConversation(conversations, messages, cid, u)]
    /\ UNCHANGED <<conversations, messages, analytics, documents, chunks, index,
                   clock, nextConv, nextDoc, sends, ingests, lastSearch, lastCall, deletes>>

\* ConversationService.delete_conversation: a denied call changes nothing
DeleteConversation(cid, u) ==
    LET conversation == GetById(conversations, cid)
    IN IF conversation = None \/ conversation.user_id # u
       THEN UNCHANGED vars
       ELSE /\ messages' = RejectConv(messages, cid)
            /\ conversations' = Without(conversations, cid)
            /\ analytics' = UpdateUserAnalytics(analytics, u, "conversation_deleted")
            /\ UNCHANGED <<documents, chunks, index, clock, nextConv, nextDoc,
                           sends, ingests, lastGet, lastSearch, lastCall, deletes>>

\* delete_conversation, lines 287-291: Conversation.get and the access
\* check. A rejected call raises ValueError, which the route answers with 404.
DeleteGet(k, cid, u) ==
    /\ deletes[k].pc = "idle"
    /\ \A k2 \in 1..(k - 1) : deletes[k2].pc # "idle"
    /\ LET conversation == GetById(conversations, cid)
           denied == conversation = None \/ conversation.user_id # u
       IN deletes' = [deletes EXCEPT ![k] =
             IF denied
             THEN [@ EXCEPT !.pc = "rejected", !.conversation_id = cid,
                            !.user_id = u,
                            !.access = IF conversation = None THEN "absent"
                                       ELSE "foreign",
                            !.response = HttpError("ValueError",
                                "Conversation not found or access denied",
                                "Failed to delete conversation")]
             ELSE [@ EXCEPT !.pc = "messages", !.conversation_id = cid,
                            !.user_id = u, !.access = "ok"]]
    /\ UNCHANGED <<conversations, messages, analytics, documents, chunks, index,
                   clock, nextConv, nextDoc, sends, ingests, lastGet, lastSearch,
                   lastCall>>

\* delete_conversation with the message delete left out
DeleteMessagesSkipped(k) ==
    /\ deletes[k].pc = "messages"
    /\ deletes' = [deletes EXCEPT ![k].pc = "record"]
    /\ UNCHANGED <<conversations, messages, analytics, documents, chunks, index,
                   clock, nextConv, nextDoc, sends, ingests, lastGet, lastSearch,
                   lastCall>>

\* delete_conversation, line 294: Message.find(conversation_id).delete()
DeleteMessages(k) ==
    /\ deletes[k].pc = "messages"
    /\ messages' = RejectConv(messages, deletes[k].conversation_id)
    /\ deletes' = [deletes EXCEPT ![k].pc = "record"]
    /\ UNCHANGED <<conversations, analytics, documents, chunks, index,
                   clock, nextConv, nextDoc, sends, ingests, lastGet, lastSearch,
                   lastCall>>

\* delete_conversation, lines 297-303: conversation.delete(), the analytics
\* update, and True is returned
DeleteRecord(k) ==
    /\ deletes[k].pc = "record"
    /\ conversations' = Without(conversations, deletes[k].conversation_id)
    /\ analytics' = UpdateUserAnalytics(analytics, deletes[k].user_id,
                                        "conversation_deleted")
    /\ deletes' = [deletes EXCEPT ![k] =
          [@ EXCEPT !.pc = "done", !.response = [status |-> 200, success |-> TRUE]]]
    /\ UNCHANGED <<messages, documents, chunks, index, clock, nextConv, nextDoc,
                   sends, ingests, lastGet, lastSearch, lastCall>>


\* ----------------------------------------------------- text chunker (4.1)
\* An uploaded file: its name, its size and the text in it, given as the
\* pieces RecursiveCharacterTextSplitter.split_text cuts it into.
ChunkTextAt(i) == CASE i % 3 = 1 -> "t1" [] i % 3 = 2 -> "t2" [] OTHER -> "t3"

Contents == {[i \in 1..n |-> ChunkTextAt(i)] : n \in 0..MaxChunks}

UploadNames == Filenames \cup {"c.exe"}

\* DocumentProcessingService._get_file_extension
FileExtension(filename) ==
    CASE filename \in {"a.txt", "b.txt"} -> "txt"
      [] filename = "c.exe" -> "exe"
      [] OTHER -> ""

\* settings.allowed_file_types_list
AllowedTypes == {"pdf", "txt", "docx", "doc"}

\* the uploads tried: a.txt with every content, b.txt with one chunk, and
\* one file for each validation error
Files ==
    {[filename |-> "a.txt", size |-> 1, content |-> c] : c \in Contents}
    \cup {[filename |-> "b.txt", size |-> 1, content |-> <<"t3">>],
          [filename |-> "c.exe", size |-> 1, content |-> <<"t1">>],
          [filename |-> "a.txt", size |-> 0, content |-> <<>>],
          [filename |-> "a.txt", size |-> MAX_FILE_SIZE_MB + 1, content |-> <<"t1">>]}

\* text.strip() is empty
IsBlank(text) == text \in {"", " "}

\* TextChunker.chunk_text: the chunk list, each chunk carrying the given
\* metadata and its index; [] on empty text or when the splitter raises
ChunkText(content, metadata, chunkOK) ==
    LET valid == SelectSeq(content, LAMBDA t : ~IsBlank(t))
    IN IF ~chunkOK \/ valid = <<>> THEN <<>>
       ELSE [i \in 1..Len(valid) |->
               [text |-> valid[i], chunk_index |-> i - 1,
                metadata |-> [k \in DOMAIN metadata \cup {"chunk_index"} |->
                                 IF k = "chunk_index" THEN i - 1 ELSE metadata[k]]]]

\* TextChunker.chunk_document
ChunkDocument(content, document_metadata, chunkOK) ==
    ChunkText(content,
              [document_id |-> document_metadata.document_id,
               user_id |-> document_metadata.user_id,
               filename |-> document_metadata.filename],
              chunkOK)

\* --------------------------------------------------- batch embedding (4.2)
\* the number of batches of size bs that n items make
BatchCount(n, bs) == (n + bs - 1) \div bs

\* the batch (1-based) that item i (1-based) falls into
BatchOf(i, bs) == ((i - 1) \div bs) + 1

\* what generate_embeddings_batch sends for a text it keeps: text[:8000] of
\* a text over the character budget ("LONG"), then text.strip()
CleanText(text) ==
    CASE text = "LONG" -> "LON"
      [] text = " t1 " -> "t1"
      [] OTHER -> text

\* generate_embeddings_batch concatenating its sub-batches last one first
GenerateEmbeddingsBatchLastBatchFirst(texts, failed) ==
    LET kept == SelectSeq(texts, LAMBDA t : ~IsBlank(t))
        n == Len(kept)
        nb == BatchCount(n, EmbedBatchSize)
        \* position k of the output comes from input position src(k)
        start(b) == (b - 1) * EmbedBatchSize + 1
        size(b) == Min(EmbedBatchSize, n - start(b) + 1)
        before(b) == IF b = nb THEN 0 ELSE n - start(b + 1) + 1
        src(k) == CHOOSE i \in 1..n :
                      LET b == BatchOf(i, EmbedBatchSize)
                      IN k = before(b) + (i - start(b)) + 1
    IN IF n = 0 THEN [ok |-> FALSE, embeddings |-> <<>>]
       ELSE [ok |-> TRUE,
             embeddings |-> [k \in 1..n |-> EmbeddingOf(CleanText(kept[src(k)]))]]

\* OpenAIEmbeddingService.generate_embeddings_batch: the sub-batches in
\* `failed` raise and are skipped; the call raises when there is no valid
\* text or no embedding at all
GenerateEmbeddingsBatch(texts, failed) ==
    LET kept_texts == SelectSeq(texts, LAMBDA t : ~IsBlank(t))
        valid_texts == [i \in 1..Len(kept_texts) |-> CleanText(kept_texts[i])]
        kept == {i \in 1..Len(valid_texts) : BatchOf(i, EmbedBatchSize) \notin failed}
        \* the kept positions in input order
        pos == [k \in 1..Cardinality(kept) |->
                  CHOOSE i \in kept : Cardinality({x \in kept : x < i}) = k - 1]
        all_embeddings == [k \in 1..Cardinality(kept) |-> EmbeddingOf(valid_texts[pos[k]])]
    IN IF valid_texts = <<>> \/ all_embeddings = <<>>
       THEN [ok |-> FALSE, embeddings |-> <<>>]
       ELSE [ok |-> TRUE, embeddings |-> all_embeddings]

\* ------------------------------------------------------------ upsert (4.3)
\* PineconeClient.upsert_vectors: batch number failAt raises (0, or a number
\* past the last batch: none does); the batches before it are written, same
\* id overwrites
UpsertVectors(idx, vectors, failAt) ==
    LET raises == failAt \in 1..BatchCount(Len(vectors), UpsertBatchSize)
        written == {i \in 1..Len(vectors) :
                      ~raises \/ BatchOf(i, UpsertBatchSize) < failAt}
        ids == {vectors[i].id : i \in written}
        rec(id) == LET i == CHOOSE i \in written :
                               /\ vectors[i].id = id
                               /\ \A m \in written : vectors[m].id = id => m <= i
                   IN [values |-> vectors[i].values, metadata |-> vectors[i].metadata]
    IN [success |-> ~raises,
        index |-> [id \in DOMAIN idx \cup ids |->
                      IF id \in ids THEN rec(id) ELSE idx[id]]]

\* PineconeClient.delete_vectors: best effort, False when the call raises
DeleteVectors(idx, vector_ids, deleteOK) ==
    IF deleteOK
    THEN [id \in DOMAIN idx \ Range(vector_ids) |-> idx[id]]
    ELSE idx

\* ------------------------------------------------- ingestion pipeline (4.4)
\* VectorService.process_and_store_document: the result it returns and the
\* index it leaves
ProcessAndStoreDocument(idx, content, document_metadata, chunkOK, failed, failAt) ==
    LET doc_chunks == ChunkDocument(content, document_metadata, chunkOK)
        texts == [i \in 1..Len(doc_chunks) |-> doc_chunks[i].text]
        emb == GenerateEmbeddingsBatch(texts, failed)
        n == Min(Len(doc_chunks), Len(emb.embeddings))      \* zip
        pinecone_ids == [i \in 1..n |-> VectorId(document_metadata.document_id, i - 1)]
        vectors == [i \in 1..n |->
                      [id |-> pinecone_ids[i], values |-> emb.embeddings[i],
                       metadata |-> [document_id |-> doc_chunks[i].metadata.document_id,
                                     user_id |-> doc_chunks[i].metadata.user_id,
                                     filename |-> doc_chunks[i].metadata.filename,
                                     chunk_index |-> doc_chunks[i].metadata.chunk_index,
                                     text |-> doc_chunks[i].text]]]
        up == UpsertVectors(idx, vectors, failAt)
        failure(error) == [success |-> FALSE, error |-> error, chunk_count |-> 0,
                           pinecone_ids |-> <<>>]
    IN IF doc_chunks = <<>>
       THEN [result |-> failure("No chunks created from document"), index |-> idx]
       ELSE IF ~emb.ok
       THEN [result |-> failure("No embeddings generated from any batch"), index |-> idx]
       ELSE IF ~up.success
       THEN [result |-> failure("Failed to store vectors in Pinecone"), index |-> up.index]
       ELSE [result |-> [success |-> TRUE, error |-> NoneStr,
                         chunk_count |-> Len(doc_chunks),
                         pinecone_ids |-> pinecone_ids],
             index |-> up.index]

\* DocumentProcessingService._validate_file: the error, or None
ValidateFile(file) ==
    IF file.size > MAX_FILE_SIZE_MB THEN "File too large"
    ELSE IF FileExtension(file.filename) \notin AllowedTypes THEN "File type not allowed"
    ELSE IF file.size = 0 THEN "File is empty"
    ELSE NoneStr

IdleIngest ==
    [pc |-> "idle", user_id |-> "", filename |-> "", content |-> <<>>,
     document_id |-> 0, vector_result |-> None, response |-> None]


\* Document(...) as process_document constructs it
NewDocument(user_id, filename) ==
    [user_id |-> user_id, filename |-> filename, chunk_count |-> 0,
     pinecone_ids |-> <<>>, processing_status |-> "processing"]

\* the DocumentChunk records _save_chunk_details builds
ChunkRecords(document_id, user_id, content, vector_result, chunkOK) ==
    LET cs == ChunkText(content, <<>>, chunkOK)   \* metadata or {}
    IN [i \in 1..Len(cs) |->
          [document_id |-> document_id, user_id |-> user_id,
           chunk_index |-> i - 1, content |-> cs[i].text,
           pinecone_id |-> IF i - 1 < Len(vector_result.pinecone_ids)
                           THEN vector_result.pinecone_ids[i]
                           ELSE VectorId(document_id, i - 1)]]

IngestFailure(error, document_id) ==
    [success |-> FALSE, error |-> error, document_id |-> document_id]

\* ------------------------------------------------------ ingestion actions
\* process_document inserting the provisional record before it validates
IngestStartRecordsFirst(j, u, file, extractOK) ==
    /\ ingests[j].pc = "idle"
    /\ \A j2 \in 1..(j - 1) : ingests[j2].pc # "idle"
    /\ documents' = With(documents, nextDoc, NewDocument(u, file.filename))
    /\ nextDoc' = nextDoc + 1
    /\ LET err == ValidateFile(file)
       IN IF err # NoneStr \/ ~extractOK \/ file.content = <<>>
          THEN ingests' = [ingests EXCEPT ![j] =
                   [@ EXCEPT !.pc = "done",
                             !.response = IngestFailure(
                                 IF err # NoneStr THEN err
                                 ELSE "Failed to extract text from document",
                                 NoneStr)]]
          ELSE ingests' = [ingests EXCEPT ![j] =
                   [@ EXCEPT !.pc = "vector", !.user_id = u,
                             !.filename = file.filename,
                             !.content = file.content,
                             !.document_id = nextDoc]]
    /\ UNCHANGED <<conversations, messages, analytics, chunks, index, clock,
                   nextConv, sends, lastGet, lastSearch, lastCall, deletes>>

\* process_document going on to the vector service without having inserted
\* the provisional record
IngestStartWithoutRecord(j, u, file, extractOK) ==
    /\ ingests[j].pc = "idle"
    /\ \A j2 \in 1..(j - 1) : ingests[j2].pc # "idle"
    /\ LET err == ValidateFile(file)
           text_content == IF extractOK THEN file.content ELSE <<>>
       IN IF err # NoneStr \/ text_content = <<>>
          THEN /\ ingests' = [ingests EXCEPT ![j] =
                      [@ EXCEPT !.pc = "done",
                                !.response = IngestFailure(
                                    IF err # NoneStr THEN err
                                    ELSE "Failed to extract text from document",
                                    NoneStr)]]
               /\ UNCHANGED nextDoc
          ELSE /\ nextDoc' = nextDoc + 1
               /\ ingests' = [ingests EXCEPT ![j] =
                      [@ EXCEPT !.pc = "vector", !.user_id = u,
                                !.filename = file.filename,
                                !.content = text_content,
                                !.document_id = nextDoc]]
    /\ UNCHANGED <<conversations, messages, analytics, documents, chunks, index,
                   clock, nextConv, sends, lastGet, lastSearch, lastCall, deletes>>

\* process_document, lines 31-65: validation, extraction, the provisional
\* record
IngestStart(j, u, file, extractOK) ==
    /\ ingests[j].pc = "idle"
    /\ \A j2 \in 1..(j - 1) : ingests[j2].pc # "idle"
    /\ LET err == ValidateFile(file)
           text_content == IF extractOK THEN file.content ELSE <<>>
       IN IF err # NoneStr
          THEN /\ ingests' = [ingests EXCEPT ![j] =
                      [@ EXCEPT !.pc = "done", !.response = IngestFailure(err, NoneStr)]]
               /\ UNCHANGED <<documents, nextDoc>>
          ELSE IF text_content = <<>>
          THEN /\ ingests' = [ingests EXCEPT ![j] =
                      [@ EXCEPT !.pc = "done",
                                !.response = IngestFailure(
                                    "Failed to extract text from document", NoneStr)]]
               /\ UNCHANGED <<documents, nextDoc>>
          ELSE /\ documents' = With(documents, nextDoc, NewDocument(u, file.filename))
               /\ nextDoc' = nextDoc + 1
               /\ ingests' = [ingests EXCEPT ![j] =
                      [@ EXCEPT !.pc = "vector", !.user_id = u,
                                !.filename = file.filename,
                                !.content = text_content,
                                !.document_id = nextDoc]]
    /\ UNCHANGED <<conversations, messages, analytics, chunks, index, clock,
                   nextConv, sends, lastGet, lastSearch, lastCall, deletes>>

\* process_document, lines 67-81: vector_service.process_and_store_document
IngestVector(j, chunkOK, failed, failAt) ==
    /\ ingests[j].pc = "vector"
    /\ LET out == ProcessAndStoreDocument(index, ingests[j].content,
                      [document_id |-> ingests[j].document_id,
                       user_id |-> ingests[j].user_id,
                       filename |-> ingests[j].filename],
                      chunkOK, failed, failAt)
       IN /\ index' = out.index
          /\ ingests' = [ingests EXCEPT ![j] =
                [@ EXCEPT !.pc = "finish", !.vector_result = out.result]]
    /\ UNCHANGED <<conversations, messages, analytics, documents, chunks, clock,
                   nextConv, nextDoc, sends, lastGet, lastSearch, lastCall, deletes>>

\* process_document, lines 83-97 and 121-129: on a failed vector result the
\* record is deleted, otherwise it is saved as completed; when the datastore
\* call raises, the handler returns the failure and touches nothing else
IngestFinish(j, dbOK) ==
    /\ ingests[j].pc = "finish"
    /\ LET me == ingests[j]
           vr == me.vector_result
           saved == [NewDocument(me.user_id, me.filename) EXCEPT
                        !.chunk_count = vr.chunk_count,
                        !.pinecone_ids = vr.pinecone_ids,
                        !.processing_status = "completed"]
       IN IF ~dbOK
          THEN /\ ingests' = [ingests EXCEPT ![j] =
                      [@ EXCEPT !.pc = "done",
                                !.response = IngestFailure("datastore error",
                                                           me.document_id)]]
               /\ UNCHANGED documents
          ELSE IF ~vr.success
          THEN /\ documents' = Without(documents, me.document_id)
               /\ ingests' = [ingests EXCEPT ![j] =
                      [IdleIngest EXCEPT !.pc = "done", !.user_id = me.user_id,
                                !.document_id = me.document_id,
                                !.vector_result = vr,
                                !.response = IngestFailure(
                                    <<"Vector processing failed: ", vr.error>>,
                                    me.document_id)]]
          ELSE /\ documents' = With(documents, me.document_id, saved)
               /\ ingests' = [ingests EXCEPT ![j].pc = "chunks"]
    /\ UNCHANGED <<conversations, messages, analytics, chunks, index, clock,
                   nextConv, nextDoc, sends, lastGet, lastSearch, lastCall, deletes>>

\* process_document saving its first snapshot of the record (status
\* processing) again after the chunk details
IngestChunksSavesStaleRecord(j, inserted) ==
    /\ ingests[j].pc = "chunks"
    /\ LET me == ingests[j]
           recs == ChunkRecords(me.document_id, me.user_id, me.content,
                                me.vector_result, TRUE)
       IN /\ inserted <= Len(recs)
          /\ chunks' = chunks \cup {recs[i] : i \in 1..inserted}
          /\ documents' = With(documents, me.document_id,
                               NewDocument(me.user_id, me.filename))
          /\ ingests' = [ingests EXCEPT ![j] =
                [IdleIngest EXCEPT !.pc = "done", !.user_id = me.user_id,
                          !.document_id = me.document_id,
                          !.response = [success |-> TRUE, error |-> NoneStr,
                                        document_id |-> me.document_id,
                                        chunk_count |-> me.vector_result.chunk_count]]]
    /\ UNCHANGED <<conversations, messages, analytics, index, clock,
                   nextConv, nextDoc, sends, lastGet, lastSearch, lastCall, deletes>>

\* process_document, lines 99-119: _save_chunk_details chunks the text again
\* and inserts the chunk records one by one; an error (of the chunker or of
\* an insert) is swallowed, the first `inserted` records stay written. Then
\* success is returned
IngestChunks(j, inserted) ==
    /\ ingests[j].pc = "chunks"
    /\ LET me == ingests[j]
           recs == ChunkRecords(me.document_id, me.user_id, me.content,
                                me.vector_result, TRUE)
       IN /\ inserted <= Len(recs)
          /\ chunks' = chunks \cup {recs[i] : i \in 1..inserted}
          /\ ingests' = [ingests EXCEPT ![j] =
                [IdleIngest EXCEPT !.pc = "done", !.user_id = me.user_id,
                          !.document_id = me.document_id,
                          !.response = [success |-> TRUE, error |-> NoneStr,
                                        document_id |-> me.document_id,
                                        chunk_count |-> me.vector_result.chunk_count]]]
    /\ UNCHANGED <<conversations, messages, analytics, documents, index, clock,
                   nextConv, nextDoc, sends, lastGet, lastSearch, lastCall, deletes>>

\* DocumentProcessingService.delete_document: a denied call changes nothing
DeleteDocument(d, u, deleteOK) ==
    LET document == GetById(documents, d)
    IN IF document = None \/ document.user_id # u
       THEN UNCHANGED vars
       ELSE /\ index' = IF document.pinecone_ids # <<>>
                        THEN DeleteVectors(index, document.pinecone_ids, deleteOK)
                        ELSE index
            /\ chunks' = {c \in chunks : c.document_id # d}
            /\ documents' = Without(documents, d)
            /\ UNCHANGED <<conversations, messages, analytics, clock, nextConv,
                           nextDoc, sends, ingests, lastGet, lastSearch, lastCall, deletes>>

\* delete_document, lines 303-309 and 324-327: the dict it returns
DeleteDocumentResult(document, u) ==
    IF document = None \/ document.user_id # u
    THEN [success |-> FALSE, error |-> "Document not found or access denied"]
    ELSE [success |-> TRUE, message |-> "Document deleted successfully"]

\* delete_document deleting for any caller who names a stored document
DeleteDocumentCallAnyUser(d, u, deleteOK) ==
    LET document == GetById(documents, d)
    IN /\ lastCall' = [fn |-> "delete_document", document_id |-> d, user_id |-> u,
                       result |-> DeleteDocumentResult(document,
                                      IF document = None THEN u ELSE document.user_id)]
       /\ IF document = None
          THEN UNCHANGED <<documents, chunks, index>>
          ELSE /\ index' = IF document.pinecone_ids # <<>>
                           THEN DeleteVectors(index, document.pinecone_ids, deleteOK)
                           ELSE index
               /\ chunks' = {c \in chunks : c.document_id # d}
               /\ documents' = Without(documents, d)
       /\ UNCHANGED <<conversations, messages, analytics, clock, nextConv,
                      nextDoc, sends, ingests, lastGet, lastSearch, deletes>>

\* DocumentProcessingService.delete_document with the dict it returned kept:
\* a caller who is not the owner, or an id that names no document, gets the
\* failure before anything is deleted
DeleteDocumentCall(d, u, deleteOK) ==
    LET document == GetById(documents, d)
        result == DeleteDocumentResult(document, u)
    IN /\ lastCall' = [fn |-> "delete_document", document_id |-> d, user_id |-> u,
                       result |-> result]
       /\ IF ~result.success
          THEN UNCHANGED <<documents, chunks, index>>
          ELSE /\ index' = IF document.pinecone_ids # <<>>
                           THEN DeleteVectors(index, document.pinecone_ids, deleteOK)
                           ELSE index
               /\ chunks' = {c \in chunks : c.document_id # d}
               /\ documents' = Without(documents, d)
       /\ UNCHANGED <<conversations, messages, analytics, clock, nextConv,
                      nextDoc, sends, ingests, lastGet, lastSearch, deletes>>

\* search_global: VectorService.search_similar_content called for a user
Search(u, q, embedOK, queryOK) ==
    /\ \E results \in SearchSimilarContent(index, q, u, TOP_K_RESULTS, embedOK, queryOK) :
          lastSearch' = [user_id |-> u, query |-> q, results |-> results]
    /\ UNCHANGED <<conversations, messages, analytics, documents, chunks, index,
                   clock, nextConv, nextDoc, sends, ingests, lastGet, lastCall, deletes>>

\* the document id lists a caller may scope a search to: each set of ids
\* listed once, in ascending order
SortedSeq(S) ==
    CHOOSE s \in [1..Cardinality(S) -> S] :
        \A i, k \in 1..Cardinality(S) : i < k => s[i] < s[k]

DocumentIdSeqs == {SortedSeq(S) : S \in SUBSET (1..MaxIngests)}

\* search_scoped: VectorService.search_document_scoped_content called for a
\* user and a list of document ids
SearchScoped(u, q, document_ids, embedOK, queryOK) ==
    /\ \E results \in SearchDocumentScopedContent(index, q, u, document_ids,
                          TOP_K_RESULTS, embedOK, queryOK) :
          lastCall' = [fn |-> "search_document_scoped_content", user_id |-> u,
                       query |-> q, document_ids |-> document_ids,
                       top_k |-> TOP_K_RESULTS, results |-> results]
    /\ UNCHANGED <<conversations, messages, analytics, documents, chunks, index,
                   clock, nextConv, nextDoc, sends, ingests, lastGet, lastSearch, deletes>>

\* the texts handed to generate_embeddings_batch directly: chunk texts, a
\* whitespace-only text, a text with surrounding whitespace and a text over
\* the character budget
EmbedTexts == ChunkTexts \cup {" ", " t1 ", "LONG"}

EmbedInputs == UNION {[1..n -> EmbedTexts] : n \in 0..MaxChunks}

\* OpenAIEmbeddingService.generate_embeddings_batch called with a list of
\* texts; the sub-batches in `failed` raise
EmbedBatch(texts, failed) ==
    /\ lastCall' = [fn |-> "generate_embeddings_batch", texts |-> texts,
                    failed |-> failed,
                    result |-> GenerateEmbeddingsBatch(texts, failed)]
    /\ UNCHANGED <<conversations, messages, analytics, documents, chunks, index,
                   clock, nextConv, nextDoc, sends, ingests, lastGet, lastSearch, deletes>>

\* ------------------------------------------------------------ specification
EmptyColl == [k \in {} |-> None]

Init ==
    /\ conversations = EmptyColl
    /\ messages = <<>>
    /\ analytics = [u \in Users |-> [total_documents |-> 0, total_conversations |-> 0,
                                    total_messages |-> 0]]
    /\ documents = EmptyColl
    /\ chunks = {}
    /\ index = EmptyColl
    /\ clock = 1
    /\ nextConv = 1
    /\ nextDoc = 1
    /\ sends = [r \in 1..MaxSends |-> IdleSend]
    /\ ingests = [j \in 1..MaxIngests |-> IdleIngest]
    /\ lastGet = None
    /\ lastSearch = None
    /\ lastCall = None
    /\ deletes = [k \in 1..MaxDeletes |-> IdleDelete]

NextIngest ==
    \/ \E j \in 1..MaxIngests, u \in Users, file \in Files, extractOK \in BOOLEAN :
          IngestStart(j, u, file, extractOK)
    \/ \E j \in 1..MaxIngests, chunkOK \in BOOLEAN,
          failed \in SUBSET (1..BatchCount(MaxChunks, EmbedBatchSize)),
          failAt \in 0..BatchCount(MaxChunks, UpsertBatchSize) :
          IngestVector(j, chunkOK, failed, failAt)
    \/ \E j \in 1..MaxIngests, dbOK \in BOOLEAN : IngestFinish(j, dbOK)
    \/ \E j \in 1..MaxIngests, inserted \in 0..MaxChunks :
          IngestChunks(j, inserted)
    \/ \E d \in 1..MaxIngests, u \in Users, deleteOK \in BOOLEAN :
          DeleteDocument(d, u, deleteOK)

NextSearch ==
    \E u \in Users, q \in Queries, embedOK \in BOOLEAN, queryOK \in BOOLEAN :
        Search(u, q, embedOK, queryOK)

SpecIngest == Init /\ [][NextIngest]_vars

\* the ingestion and deletion requests served one at a time
IngestInFlight(j) == ingests[j].pc \in {"vector", "finish", "chunks"}

NextIngestSeq ==
    \/ /\ \A j \in 1..MaxIngests : ~IngestInFlight(j)
       /\ \/ \E j \in 1..MaxIngests, u \in Users, file \in Files, extractOK \in BOOLEAN :
                IngestStart(j, u, file, extractOK)
          \/ \E d \in 1..MaxIngests, u \in Users, deleteOK \in BOOLEAN :
                DeleteDocument(d, u, deleteOK)
    \/ \E j \in 1..MaxIngests, chunkOK \in BOOLEAN,
          failed \in SUBSET (1..BatchCount(MaxChunks, EmbedBatchSize)),
          failAt \in 0..BatchCount(MaxChunks, UpsertBatchSize) :
          IngestVector(j, chunkOK, failed, failAt)
    \/ \E j \in 1..MaxIngests, dbOK \in BOOLEAN : IngestFinish(j, dbOK)
    \/ \E j \in 1..MaxIngests, inserted \in 0..MaxChunks :
          IngestChunks(j, inserted)

SpecSearch == Init /\ [][NextIngestSeq \/ NextSearch]_vars

SpecIngestSeq == Init /\ [][NextIngestSeq]_vars

NextEmbed ==
    \E texts \in EmbedInputs,
       failed \in SUBSET (1..BatchCount(MaxChunks, EmbedBatchSize)) :
        EmbedBatch(texts, failed)

SpecEmbed == Init /\ [][NextEmbed]_vars

NextScoped ==
    \E u \in Users, q \in Queries, document_ids \in DocumentIdSeqs,
       embedOK \in BOOLEAN, queryOK \in BOOLEAN :
        SearchScoped(u, q, document_ids, embedOK, queryOK)



\* The corpus the chat specification starts from, as two completed
\* ingestions by user A leave it: document 1 (a.txt, chunks t1 t2) and
\* document 2 (b.txt, chunk t3). User B has no document.
Seeded1 ==
    ProcessAndStoreDocument(EmptyColl, <<"t1", "t2">>,
        [document_id |-> 1, user_id |-> "A", filename |-> "a.txt"], TRUE, {}, 0)

Seeded2 ==
    ProcessAndStoreDocument(Seeded1.index, <<"t3">>,
        [document_id |-> 2, user_id |-> "A", filename |-> "b.txt"], TRUE, {}, 0)

SeededDocument(filename, vr) ==
    [NewDocument("A", filename) EXCEPT !.chunk_count = vr.chunk_count,
                                       !.pinecone_ids = vr.pinecone_ids,
                                       !.processing_status = "completed"]

SeededIngest(d, vr) ==
    [IdleIngest EXCEPT !.pc = "done", !.user_id = "A", !.document_id = d,
                       !.response = [success |-> TRUE, error |-> NoneStr,
                                     document_id |-> d,
                                     chunk_count |-> vr.chunk_count]]

SeededState ==
    /\ documents = <<SeededDocument("a.txt", Seeded1.result),
                     SeededDocument("b.txt", Seeded2.result)>>
    /\ chunks = Range(ChunkRecords(1, "A", <<"t1", "t2">>, Seeded1.result, TRUE))
                \cup Range(ChunkRecords(2, "A", <<"t3">>, Seeded2.result, TRUE))
    /\ index = Seeded2.index
    /\ nextDoc = 3
    /\ \A j \in 1..MaxIngests :
          ingests[j] = IF j = 1 THEN SeededIngest(1, Seeded1.result)
                       ELSE IF j = 2 THEN SeededIngest(2, Seeded2.result)
                       ELSE IdleIngest

InitChat ==
    /\ conversations = EmptyColl
    /\ messages = <<>>
    /\ analytics = [u \in Users |-> [total_documents |-> 0, total_conversations |-> 0,
                                    total_messages |-> 0]]
    /\ documents = <<SeededDocument("a.txt", Seeded1.result),
                     SeededDocument("b.txt", Seeded2.result)>>
    /\ chunks = Range(ChunkRecords(1, "A", <<"t1", "t2">>, Seeded1.result, TRUE))
                \cup Range(ChunkRecords(2, "A", <<"t3">>, Seeded2.result, TRUE))
    /\ index = Seeded2.index
    /\ clock = 1
    /\ nextConv = 1
    /\ nextDoc = 3
    /\ sends = [r \in 1..MaxSends |-> IdleSend]
    /\ ingests = [j \in 1..MaxIngests |->
                    IF j = 1 THEN SeededIngest(1, Seeded1.result)
                    ELSE IF j = 2 THEN SeededIngest(2, Seeded2.result)
                    ELSE IdleIngest]
    /\ lastGet = None
    /\ lastSearch = None
    /\ lastCall = None
    /\ deletes = [k \in 1..MaxDeletes |-> IdleDelete]

\* The corpora the search specification starts from: the states two
\* successful uploads of a.txt, served one after the other, leave behind.
\* Document 1 belongs to u1 and has the chunks c1, document 2 belongs to u2
\* and has the chunks c2.
CorpusDoc1(u1, c1) ==
    ProcessAndStoreDocument(EmptyColl, c1,
        [document_id |-> 1, user_id |-> u1, filename |-> "a.txt"], TRUE, {}, 0)

CorpusDoc2(u1, c1, u2, c2) ==
    ProcessAndStoreDocument(CorpusDoc1(u1, c1).index, c2,
        [document_id |-> 2, user_id |-> u2, filename |-> "a.txt"], TRUE, {}, 0)

CompletedDocument(u, filename, vr) ==
    [NewDocument(u, filename) EXCEPT !.chunk_count = vr.chunk_count,
                                     !.pinecone_ids = vr.pinecone_ids,
                                     !.processing_status = "completed"]

CompletedIngest(u, d, vr) ==
    [IdleIngest EXCEPT !.pc = "done", !.user_id = u, !.document_id = d,
                       !.response = [success |-> TRUE, error |-> NoneStr,
                                     document_id |-> d,
                                     chunk_count |-> vr.chunk_count]]

CorpusState(u1, c1, u2, c2) ==
    LET r1 == CorpusDoc1(u1, c1).result
        r2 == CorpusDoc2(u1, c1, u2, c2).result
    IN /\ documents = <<CompletedDocument(u1, "a.txt", r1),
                        CompletedDocument(u2, "a.txt", r2)>>
       /\ chunks = Range(ChunkRecords(1, u1, c1, r1, TRUE))
                   \cup Range(ChunkRecords(2, u2, c2, r2, TRUE))
       /\ index = CorpusDoc2(u1, c1, u2, c2).index
       /\ nextDoc = 3
       /\ ingests = [j \in 1..MaxIngests |->
                       IF j = 1 THEN CompletedIngest(u1, 1, r1)
                       ELSE IF j = 2 THEN CompletedIngest(u2, 2, r2)
                       ELSE IdleIngest]

InitCorpus ==
    /\ \E u1 \in Users, u2 \in Users, c1 \in Contents \ {<<>>}, c2 \in Contents \ {<<>>} :
          CorpusState(u1, c1, u2, c2)
    /\ conversations = EmptyColl
    /\ messages = <<>>
    /\ analytics = [u \in Users |-> [total_documents |-> 0, total_conversations |-> 0,
                                    total_messages |-> 0]]
    /\ clock = 1
    /\ nextConv = 1
    /\ sends = [r \in 1..MaxSends |-> IdleSend]
    /\ lastGet = None
    /\ lastSearch = None
    /\ lastCall = None
    /\ deletes = [k \in 1..MaxDeletes |-> IdleDelete]

NextDelete ==
    \E d \in 1..MaxIngests, u \in Users, deleteOK \in BOOLEAN :
        DeleteDocument(d, u, deleteOK)

SpecScoped == InitCorpus /\ [][NextDelete \/ NextScoped]_vars

\* the document-id lists a scoped conversation is started with: none, and
\* document 2 with an id that names no document
DocumentIdLists == {<<>>, <<2, 3>>}

NextDocChat ==
    \E u \in Users, ids \in DocumentIdLists, embedOK \in BOOLEAN, queryOK \in BOOLEAN :
        StartDocumentConversation(u, ids, embedOK, queryOK)

NextChat ==
    \/ \E u \in Users : StartConversation(u)
    \/ \E r \in 1..MaxSends, cid \in 1..MaxConvs, u \in Users, q \in UserMessages :
          SendGet(r, cid, u, q)
    \/ \E r \in 1..MaxSends : SendInsertUser(r)
    \/ \E r \in 1..MaxSends, embedOK \in BOOLEAN, queryOK \in BOOLEAN, llmOK \in BOOLEAN :
          SendRag(r, embedOK, queryOK, llmOK)
    \/ \E r \in 1..MaxSends : SendInsertAssistant(r)
    \/ \E r \in 1..MaxSends : SendSave(r)
    \/ \E cid \in 1..MaxConvs, u \in Users : DeleteConversation(cid, u)

\* a send_message request is between its first and its last step
SendInFlight(r) == sends[r].pc \in {"insert_user", "rag", "insert_assistant", "save"}

\* the chat requests served one at a time: a request is only accepted when
\* no send_message is in flight
NextChatSeq ==
    \/ /\ \A r \in 1..MaxSends : ~SendInFlight(r)
       /\ \/ \E u \in Users : StartConversation(u)
          \/ \E r \in 1..MaxSends, cid \in 1..MaxConvs, u \in Users, q \in UserMessages :
                SendGet(r, cid, u, q)
          \/ \E cid \in 1..MaxConvs, u \in Users : DeleteConversation(cid, u)
    \/ \E r \in 1..MaxSends : SendInsertUser(r)
    \/ \E r \in 1..MaxSends, embedOK \in BOOLEAN, queryOK \in BOOLEAN, llmOK \in BOOLEAN :
          SendRag(r, embedOK, queryOK, llmOK)
    \/ \E r \in 1..MaxSends : SendInsertAssistant(r)
    \/ \E r \in 1..MaxSends : SendSave(r)

NextGet == \E cid \in 1..MaxConvs, u \in Users : Get(cid, u)

SpecChat == InitChat /\ [][NextChat]_vars

SpecChatSeq == InitChat /\ [][NextChatSeq]_vars

SpecGet == InitChat /\ [][NextChatSeq \/ NextGet]_vars

\* the chat requests one at a time, with document conversations started and
\* documents deleted between them
NextDocChatSeq ==
    \/ NextChatSeq
    \/ /\ \A r \in 1..MaxSends : ~SendInFlight(r)
       /\ \/ NextDocChat
          \/ NextDelete

SpecDocChat == InitChat /\ [][NextDocChatSeq]_vars

\* a delete_conversation request on conversation c is between its access
\* check and its return
DeleteInFlightOn(c) ==
    \E k \in 1..MaxDeletes :
        deletes[k].pc \in {"messages", "record"} /\ deletes[k].conversation_id = c

\* a send_message request on conversation c is in flight
SendInFlightOn(c) ==
    \E r \in 1..MaxSends : SendInFlight(r) /\ sends[r].conversation_id = c

\* the steps of the send_message requests after their access check
NextSendSteps ==
    \/ \E r \in 1..MaxSends : SendInsertUser(r)
    \/ \E r \in 1..MaxSends, embedOK \in BOOLEAN, queryOK \in BOOLEAN, llmOK \in BOOLEAN :
          SendRag(r, embedOK, queryOK, llmOK)
    \/ \E r \in 1..MaxSends : SendInsertAssistant(r)
    \/ \E r \in 1..MaxSends : SendSave(r)

\* the steps of the delete_conversation requests after their access check
NextDeleteSteps ==
    \/ \E k \in 1..MaxDeletes : DeleteMessages(k)
    \/ \E k \in 1..MaxDeletes : DeleteRecord(k)

\* conversations started, messages sent and conversations deleted, every
\* request interleaving with every other at its awaits
NextConvDelete ==
    \/ \E u \in Users : StartConversation(u)
    \/ \E r \in 1..MaxSends, cid \in 1..MaxConvs, u \in Users, q \in UserMessages :
          SendGet(r, cid, u, q)
    \/ \E k \in 1..MaxDeletes, cid \in 1..MaxConvs, u \in Users : DeleteGet(k, cid, u)
    \/ NextSendSteps
    \/ NextDeleteSteps

SpecConvDelete == Init /\ [][NextConvDelete]_vars

\* the same requests, where a delete is only accepted on a conversation with
\* no send in flight and a send only on a conversation with no delete in
\* flight
NextConvDeleteAlone ==
    \/ \E u \in Users : StartConversation(u)
    \/ \E r \in 1..MaxSends, cid \in 1..MaxConvs, u \in Users, q \in UserMessages :
          ~DeleteInFlightOn(cid) /\ SendGet(r, cid, u, q)
    \/ \E k \in 1..MaxDeletes, cid \in 1..MaxConvs, u \in Users :
          ~SendInFlightOn(cid) /\ DeleteGet(k, cid, u)
    \/ NextSendSteps
    \/ NextDeleteSteps

SpecConvDeleteAlone == Init /\ [][NextConvDeleteAlone]_vars

\* delete_document called for any id by any user (an id names no document
\* once its document has been deleted)
NextDeleteDocumentCall ==
    \E d \in 1..MaxIngests, u \in Users, deleteOK \in BOOLEAN :
        DeleteDocumentCall(d, u, deleteOK)

\* no send_message and no delete_conversation is between its steps
NoRequestInFlight ==
    /\ \A r \in 1..MaxSends : ~SendInFlight(r)
    /\ \A k \in 1..MaxDeletes : deletes[k].pc \notin {"messages", "record"}

\* conversations, sends and both kinds of delete, served one at a time
NextDeletesSeq ==
    \/ /\ NoRequestInFlight
       /\ \/ \E u \in Users : StartConversation(u)
          \/ \E r \in 1..MaxSends, cid \in 1..MaxConvs, u \in Users, q \in UserMessages :
                SendGet(r, cid, u, q)
          \/ \E k \in 1..MaxDeletes, cid \in 1..MaxConvs, u \in Users :
                DeleteGet(k, cid, u)
          \/ NextDeleteDocumentCall
    \/ NextSendSteps
    \/ NextDeleteSteps

\* the same over the seeded corpus
SpecDeletes == InitChat /\ [][NextDeletesSeq]_vars

Next == NextChat \/ NextDocChat \/ NextGet \/ NextIngest \/ NextSearch

Spec == Init /\ [][Next]_vars


\* ====================================================================
\* Properties
\* ====================================================================

\* the send_message requests made on conversation c, by where they stand
SendsOn(c, pcs) == {r \in 1..MaxSends : sends[r].conversation_id = c /\ sends[r].pc \in pcs}

InFlightPcs == {"insert_user", "rag", "insert_assistant", "save"}

\* a message list alternates user, assistant, ... and ends on an assistant
Alternates(msgs) ==
    /\ Len(msgs) % 2 = 0
    /\ \A i \in 1..Len(msgs) :
          msgs[i].role = IF i % 2 = 1 THEN "user" ELSE "assistant"

\* C1: search_global for a user returns only hits whose metadata user_id is
\* that user, and that come from a document that user uploaded, whatever
\* was ingested and deleted before, by whom, and with what text.
C1_SearchIsolation ==
    lastSearch # None =>
        \A i \in 1..Len(lastSearch.results) :
            LET md == lastSearch.results[i].metadata
            IN /\ md.user_id = lastSearch.user_id
               /\ \E j \in 1..MaxIngests :
                     /\ ingests[j].document_id = md.document_id
                     /\ ingests[j].user_id = lastSearch.user_id

\* C1 witness: a search returned a hit while the index held a vector of
\* another user with the same text.
C1_Witness ==
    /\ lastSearch # None
    /\ \E i \in 1..Len(lastSearch.results) : \E id \in DOMAIN index :
          /\ index[id].metadata.user_id # lastSearch.user_id
          /\ index[id].metadata.text = lastSearch.results[i].text

\* C2 (as claimed): once no send is in flight on a conversation, its
\* message_count is twice the number of sends that succeeded on it.
C2_CountIsTwiceTheSends ==
    \A c \in DOMAIN conversations :
        SendsOn(c, InFlightPcs) = {} =>
            conversations[c].message_count = 2 * Cardinality(SendsOn(c, {"done"}))

NotFoundResponse == [status |-> 404, detail |-> "Conversation not found or access denied"]

\* C4: a send on a conversation that does not exist and a send on another
\* user's conversation are both rejected with the same 404 response, the
\* step that rejects writes no message, and a rejected request takes no
\* further step.
C4_SendRejection ==
    [][\A r \in 1..MaxSends :
          /\ (sends[r].pc = "idle" /\ sends'[r].pc # "idle") =>
                LET c == GetById(conversations, sends'[r].conversation_id)
                IN (c = None \/ c.user_id # sends'[r].user_id) =>
                      /\ sends'[r].pc = "rejected"
                      /\ sends'[r].response = NotFoundResponse
                      /\ messages' = messages
          /\ sends[r].pc = "rejected" => sends'[r] = sends[r]]_vars

\* C4 witness: one send was rejected for a missing conversation and another
\* for a conversation of another user.
C4_Witness ==
    \E r1, r2 \in 1..MaxSends :
        /\ sends[r1].pc = "rejected" /\ sends[r1].access = "absent"
        /\ sends[r2].pc = "rejected" /\ sends[r2].access = "foreign"

\* C5 (as claimed): a get of another user's conversation answers exactly as
\* it would if that conversation did not exist.
C5_GetHidesExistence ==
    [][lastGet' # lastGet =>
          LET cid == lastGet'.conversation_id
              c == GetById(conversations, cid)
          IN (c # None /\ c.user_id # lastGet'.user_id) =>
                lastGet'.response =
                    GetConversation(Without(conversations, cid), messages, cid,
                                    lastGet'.user_id)]_vars

\* C6: when the LLM call of a send fails, the request ends with the error
\* response; the failing step changes no message and no conversation
\* (message_count, last_message_at), and the request takes no further step,
\* so it writes no assistant message.
C6_LlmFailure ==
    /\ [](\A r \in 1..MaxSends :
             sends[r].llm = "failed" =>
                /\ sends[r].pc = "failed"
                /\ sends[r].response = [status |-> 500, detail |-> "Failed to send message"])
    /\ [][\A r \in 1..MaxSends :
             /\ (sends[r].pc = "rag" /\ sends'[r].pc # "rag" /\ sends'[r].llm # "ok") =>
                   messages' = messages /\ conversations' = conversations
             /\ sends[r].pc = "failed" => sends'[r] = sends[r]]_vars

\* C6 witness: a send failed at the LLM; its user message is stored, its
\* conversation has no assistant message and message_count 0.
C6_Witness ==
    \E r \in 1..MaxSends :
        /\ sends[r].pc = "failed" /\ sends[r].llm = "failed"
        /\ sends[r].conversation_id \in DOMAIN conversations
        /\ conversations[sends[r].conversation_id].message_count = 0
        /\ \E i \in 1..Len(messages) :
              /\ messages[i].timestamp = sends[r].user_msg
              /\ messages[i].role = "user"
              /\ messages[i].conversation_id = sends[r].conversation_id
        /\ \A i \in 1..Len(messages) :
              messages[i].conversation_id = sends[r].conversation_id =>
                 messages[i].role = "user"

C8_ChunkCountIsIdCount ==
    \A d \in DOMAIN documents :
        documents[d].processing_status = "completed" =>
            documents[d].chunk_count = Len(documents[d].pinecone_ids)

\* C9 (as claimed): when process_document marks a Document completed, the
\* index holds the vector of every chunk the chunker produced.
C9_CompletedHasEveryVector ==
    [][\A j \in 1..MaxIngests :
          (ingests[j].pc = "finish" /\ ingests'[j].pc = "chunks") =>
              \A i \in 0..(ingests[j].vector_result.chunk_count - 1) :
                  VectorId(ingests[j].document_id, i) \in DOMAIN index']_vars

\* C10 (as claimed): when process_document returns a failure after it
\* inserted the provisional record, that record is deleted or has status
\* failed.
C10_FailureLeavesNoProcessingRecord ==
    [][\A j \in 1..MaxIngests :
          (ingests[j].pc = "finish" /\ ingests'[j].pc = "done") =>
              LET d == GetById(documents', ingests[j].document_id)
              IN d = None \/ d.processing_status = "failed"]_vars

\* the errors _validate_file reports
ValidationErrors == {"File too large", "File type not allowed", "File is empty"}

\* C11: an upload rejected by validation (too large, extension not allowed,
\* empty) returns a failure without an id, and the rejecting step changes no
\* Document, no chunk record, no vector and no other part of the datastore.
C11_RejectedUploadWritesNothing ==
    [][\A j \in 1..MaxIngests :
          (/\ ingests[j].pc = "idle"
           /\ ingests'[j].pc = "done"
           /\ ingests'[j].response.error \in ValidationErrors) =>
              /\ ingests'[j].response.success = FALSE
              /\ ingests'[j].response.document_id = NoneStr
              /\ UNCHANGED <<db, index, nextDoc>>]_vars

\* C11 witness: an upload was rejected for its extension and another for its
\* size while neither left a Document behind.
C11_Witness ==
    \E j1, j2 \in 1..MaxIngests :
        /\ ingests[j1].pc = "done"
        /\ ingests[j1].response.error = "File type not allowed"
        /\ ingests[j2].pc = "done"
        /\ ingests[j2].response.error \in {"File too large", "File is empty"}
        /\ DOMAIN documents = {}

\* the position of a status on pending -> processing -> {completed, failed}
StatusRank(status) ==
    CASE status = "pending" -> 0
      [] status = "processing" -> 1
      [] status \in {"completed", "failed"} -> 2

\* C12: no step moves the status of a stored Document backwards: a
\* completed or failed Document keeps its status, and a processing Document
\* never becomes pending.
C12_StatusMovesForward ==
    [][\A d \in DOMAIN documents \cap DOMAIN documents' :
          LET old == documents[d].processing_status
              new == documents'[d].processing_status
          IN /\ StatusRank(new) >= StatusRank(old)
             /\ old \in {"completed", "failed"} => new = old]_vars

\* C12 witness: one Document has moved from processing to completed, its
\* ingestion has returned, and another Document is still processing.
C12_Witness ==
    \E j1, j2 \in 1..MaxIngests :
        /\ ingests[j1].pc = "done" /\ ingests[j1].response.success
        /\ GetById(documents, ingests[j1].document_id) # None
        /\ documents[ingests[j1].document_id].processing_status = "completed"
        /\ ingests[j2].pc = "vector"
        /\ documents[ingests[j2].document_id].processing_status = "processing"

\* C13 (as claimed, for a Document whose ingestion completed): once
\* delete_document has removed the Document, no chunk record and no vector
\* carries its id, and a scoped search of the owner naming it returns no hit.
C13_DeleteRemovesChunksAndVectors ==
    [][\A d \in DOMAIN documents :
          (/\ documents[d].processing_status = "completed"
           /\ d \notin DOMAIN documents') =>
              /\ \A c \in chunks' : c.document_id # d
              /\ \A id \in DOMAIN index' : index'[id].metadata.document_id # d
              /\ \A q \in Queries :
                    SearchDocumentScopedContent(index', q, documents[d].user_id,
                        <<d>>, TOP_K_RESULTS, TRUE, TRUE) = {<<>>}]_vars

\* the process_document calls of a user that returned success
SucceededIngests(u) ==
    {j \in 1..MaxIngests :
        /\ ingests[j].pc = "done" /\ ingests[j].user_id = u
        /\ ingests[j].response.success}

\* C14 (as claimed): every successful process_document adds exactly 1 to the
\* owner's UserAnalytics.total_documents and a failed one adds nothing, so
\* the counter equals the number of the owner's successful uploads.
C14_DocumentCountFollowsUploads ==
    \A u \in Users :
        analytics[u].total_documents = Cardinality(SucceededIngests(u))

\* the document ids appearing in a result list
DocIdsOf(results) == {results[i].metadata.document_id : i \in 1..Len(results)}

\* the stored Documents of a user
OwnedDocs(u) == {d \in DOMAIN documents : documents[d].user_id = u}

\* the vectors of the index that carry a user's id
VectorsOf(idx, u) == {id \in DOMAIN idx : idx[id].metadata.user_id = u}

\* a scoped search has just returned for document ids that all belong to
\* the caller
ScopedCallReturned ==
    /\ lastCall' # lastCall
    /\ lastCall'.fn = "search_document_scoped_content"
    /\ Range(lastCall'.document_ids) \subseteq OwnedDocs(lastCall'.user_id)

\* C15 (as claimed): the document ids in the results of a scoped search over
\* a subset of the owner's documents are among the document ids in the
\* results of the global search for the same query, owner and top_k.
C15_ScopedWithinGlobal ==
    [][ScopedCallReturned =>
          \A rg \in SearchSimilarContent(index', lastCall'.query, lastCall'.user_id,
                                         lastCall'.top_k, TRUE, TRUE) :
              DocIdsOf(lastCall'.results) \subseteq DocIdsOf(rg)]_vars

\* C15 (amended): the same, when the global search is not cut off by top_k,
\* that is when the index holds at most top_k vectors of the owner.
C15_ScopedWithinUntruncatedGlobal ==
    [][(/\ ScopedCallReturned
        /\ Cardinality(VectorsOf(index', lastCall'.user_id)) <= lastCall'.top_k) =>
          \A rg \in SearchSimilarContent(index', lastCall'.query, lastCall'.user_id,
                                         lastCall'.top_k, TRUE, TRUE) :
              DocIdsOf(lastCall'.results) \subseteq DocIdsOf(rg)]_vars

\* C15 witness: a scoped search over one of the caller's two documents
\* returned a hit while the caller has no more than top_k vectors.
C15_Witness ==
    /\ lastCall # None
    /\ lastCall.fn = "search_document_scoped_content"
    /\ Len(lastCall.document_ids) = 1
    /\ Range(lastCall.document_ids) \subseteq OwnedDocs(lastCall.user_id)
    /\ Cardinality(OwnedDocs(lastCall.user_id)) = 2
    /\ lastCall.results # <<>>
    /\ Cardinality(VectorsOf(index, lastCall.user_id)) <= lastCall.top_k

\* C16 (as claimed): message_count is increased once for every successful
\* send, also when the sends on a conversation overlap: once no send is in
\* flight on a conversation, its message_count is the number of sends that
\* succeeded on it.
C16_NoLostCountUpdate ==
    \A c \in DOMAIN conversations :
        SendsOn(c, InFlightPcs) = {} =>
            conversations[c].message_count = Cardinality(SendsOn(c, {"done"}))

\* C17 (as claimed): for every completed Document whose process_document has
\* returned, the stored chunk records of the document have the indices
\* 0..chunk_count-1, one record for each.
C17_ChunkRecordsContiguous ==
    \A d \in DOMAIN documents :
        (/\ documents[d].processing_status = "completed"
         /\ \A j \in 1..MaxIngests :
               ingests[j].document_id = d => ingests[j].pc = "done") =>
            LET recs == {c \in chunks : c.document_id = d}
                n == documents[d].chunk_count
            IN /\ {c.chunk_index : c \in recs} = 0..(n - 1)
               /\ Cardinality(recs) = n

\* C18 (as claimed): every stored conversation of chat_type document has a
\* non-empty selected-document list, and no step changes the chat_type or
\* the selected-document list of a stored conversation.
C18_DocumentConversationHasDocuments ==
    /\ [](\A c \in DOMAIN conversations :
            conversations[c].chat_type = "document" =>
                conversations[c].selected_document_ids # <<>>)
    /\ [][\A c \in DOMAIN conversations \cap DOMAIN conversations' :
            /\ conversations'[c].chat_type = conversations[c].chat_type
            /\ conversations'[c].selected_document_ids =
                  conversations[c].selected_document_ids]_vars

\* C19: every vector of the index has the id made of the document_id and
\* the chunk_index in its own metadata, and carries the user_id of the
\* upload that produced its document, which is the owner of the Document
\* while that is stored; and no upsert ever replaces a vector that another
\* ingestion wrote, so ids are never shared, also by overlapping uploads.
C19_VectorIdsAndOwners ==
    /\ [](\A id \in DOMAIN index :
            LET md == index[id].metadata
            IN /\ id = <<md.document_id, "chunk", md.chunk_index>>
               /\ \E j \in 1..MaxIngests :
                     /\ ingests[j].document_id = md.document_id
                     /\ ingests[j].user_id = md.user_id
               /\ md.document_id \in DOMAIN documents =>
                     documents[md.document_id].user_id = md.user_id)
    /\ [][\A id \in DOMAIN index \cap DOMAIN index' : index'[id] = index[id]]_vars

\* C19 witness: two uploads of different users overlap, and each has
\* written its first chunk's vector.
C19_Witness ==
    \E j1, j2 \in 1..MaxIngests :
        /\ ingests[j1].pc = "finish" /\ ingests[j2].pc = "finish"
        /\ ingests[j1].user_id # ingests[j2].user_id
        /\ <<ingests[j1].document_id, "chunk", 0>> \in DOMAIN index
        /\ <<ingests[j2].document_id, "chunk", 0>> \in DOMAIN index

\* a generate_embeddings_batch call in which no sub-batch failed and no text
\* was empty or whitespace-only
CleanEmbedCall ==
    /\ lastCall # None
    /\ lastCall.fn = "generate_embeddings_batch"
    /\ Len(lastCall.texts) >= 1
    /\ \A i \in 1..Len(lastCall.texts) : ~IsBlank(lastCall.texts[i])
    /\ lastCall.failed \cap (1..BatchCount(Len(lastCall.texts), EmbedBatchSize)) = {}

C21_DeleteCascades ==
    /\ [](\A k \in 1..MaxDeletes :
            deletes[k].pc = "done" =>
                /\ deletes[k].conversation_id \notin DOMAIN conversations
                /\ SelectConv(messages, deletes[k].conversation_id) = <<>>)
    /\ [][\A c \in DOMAIN conversations \ DOMAIN conversations' :
             SelectConv(messages, c) = <<>>]_vars

\* C21 witness: a conversation on which a send succeeded, so that it held
\* two messages, has been deleted by its owner.
C21_Witness ==
    \E k \in 1..MaxDeletes, r \in 1..MaxSends :
        /\ deletes[k].pc = "done"
        /\ deletes[k].response.success
        /\ sends[r].pc = "done"
        /\ sends[r].conversation_id = deletes[k].conversation_id

\* C30 (as claimed): once a delete_conversation that overlapped a send on
\* the same conversation has returned success and the send has finished,
\* the conversation is not stored and no message carries its id.
C30_DeleteWinsOverSend ==
    \A k \in 1..MaxDeletes :
        (deletes[k].pc = "done" /\ ~SendInFlightOn(deletes[k].conversation_id)) =>
            /\ deletes[k].conversation_id \notin DOMAIN conversations
            /\ SelectConv(messages, deletes[k].conversation_id) = <<>>

\* the messages of conversation cid stored before the message written at
\* time t: the last `limit` of them, oldest first, as {role, content}
PriorHistory(msgs, cid, t, limit) ==
    LET prior == SelectSeq(SelectConv(msgs, cid), LAMBDA m : m.timestamp < t)
        recent == LastN(prior, limit)
    IN [i \in 1..Len(recent) |->
           [role |-> recent[i].role, content |-> recent[i].content]]

\* OpenAIChatService.generate_response, lines 52-60: the turns sent to the
\* LLM after the system prompt
PromptTurns(query, context, conversation_history) ==
    conversation_history
        \o <<[role |-> "user", content |-> <<"Context:", context, "Question:", query>>]>>

\* C22 (as claimed): the history a send passes to the LLM is made of the
\* messages stored before the send's own user message, at most the 10 most
\* recent, oldest first, so the turn before the final user turn of the
\* prompt is not the send's own question.
C22_HistoryIsPrior ==
    [][\A r \in 1..MaxSends :
          (sends[r].pc = "rag" /\ sends'[r].pc = "insert_assistant") =>
              LET history == sends'[r].rag_response.history
                  turns == PromptTurns(sends[r].user_message,
                                       sends'[r].rag_response.context, history)
              IN /\ history = PriorHistory(messages, sends[r].conversation_id,
                                           sends[r].user_msg, HistoryLimit)
                 /\ Len(turns) = 1 + Len(PriorHistory(messages,
                                           sends[r].conversation_id,
                                           sends[r].user_msg, HistoryLimit))]_vars

\* citation src is the one of a vector of the index hit by query: it carries
\* the document_id, filename and chunk_index of the vector's metadata and
\* the vector's score, and text is the vector's text
CitesVector(src, text, query) ==
    \E id \in DOMAIN index :
        LET md == index[id].metadata
        IN /\ src.filename = md.filename
           /\ src.document_id = md.document_id
           /\ src.chunk_index = md.chunk_index
           /\ src.score = Score(EmbeddingOf(query), index[id].values)
           /\ text = md.text

\* C23 (as claimed): for every hit that retrieval returned to a send, the
\* citation the send is about to store carries the document_id, filename
\* and chunk_index of the hit's metadata and the hit's score, in ranking
\* order, whatever the chat_type of the conversation.
C23_CitationsCarryHitMetadata ==
    \A r \in 1..MaxSends :
        sends[r].pc = "insert_assistant" =>
            LET sources == sends[r].rag_response.sources
                context == sends[r].rag_response.context
            IN /\ Len(sources) = Len(context)
               /\ \A i \in 1..Len(sources) :
                     CitesVector(sources[i], context[i], sends[r].user_message)
               /\ \A i, k \in 1..Len(sources) :
                     i < k => sources[i].score >= sources[k].score

\* C25 (as claimed): every source cited on an assistant message of a
\* conversation started with document ids D has a document id in D that the
\* conversation's owner uploaded; a send on such a conversation never
\* retrieves globally.
C25_ScopedConversationCitesItsDocuments ==
    \A i \in 1..Len(messages) :
        LET m == messages[i]
            c == GetById(conversations, m.conversation_id)
        IN (c # None /\ c.chat_type = "document" /\ m.role = "assistant") =>
              \A k \in 1..Len(m.sources) :
                  /\ m.sources[k].document_id \in Range(c.selected_document_ids)
                  /\ \E j \in 1..MaxIngests :
                        /\ ingests[j].document_id = m.sources[k].document_id
                        /\ ingests[j].user_id = c.user_id

\* C24 (as claimed): every vector that process_and_store_document upserts
\* under the id of chunk i of a document carries the embedding of the text of
\* chunk i and that text in its metadata, also when an embedding sub-batch
\* failed.
C24_VectorMatchesItsChunk ==
    [][\A j \in 1..MaxIngests :
          (ingests[j].pc = "vector" /\ ingests'[j].pc = "finish") =>
              LET cs == ChunkText(ingests[j].content, <<>>, TRUE)
              IN \A i \in 1..Len(cs) :
                    LET id == VectorId(ingests[j].document_id, i - 1)
                    IN id \in DOMAIN index' =>
                          /\ index'[id].values = EmbeddingOf(cs[i].text)
                          /\ index'[id].metadata.text = cs[i].text]_vars

\* C26: when process_document moves on to the vector service (chunking and
\* embedding), its Document record is stored with status processing, no
\* chunk_count and no vector ids, and no vector of the document exists yet;
\* and chunk_count and the vector-id list of a stored Document are only
\* changed by the step that follows a successful upsert of that document.
C26_RecordBeforeEmbedding ==
    /\ [][\A j \in 1..MaxIngests :
             (ingests[j].pc = "idle" /\ ingests'[j].pc = "vector") =>
                 LET d == ingests'[j].document_id
                 IN /\ d \notin DOMAIN documents
                    /\ d \in DOMAIN documents'
                    /\ documents'[d].processing_status = "processing"
                    /\ documents'[d].chunk_count = 0
                    /\ documents'[d].pinecone_ids = <<>>
                    /\ \A id \in DOMAIN index' : index'[id].metadata.document_id # d]_vars
    /\ [][\A d \in DOMAIN documents \cap DOMAIN documents' :
             (\/ documents'[d].chunk_count # documents[d].chunk_count
              \/ documents'[d].pinecone_ids # documents[d].pinecone_ids) =>
                 \E j \in 1..MaxIngests :
                     /\ ingests[j].document_id = d
                     /\ ingests[j].pc = "finish" /\ ingests'[j].pc = "chunks"
                     /\ ingests[j].vector_result.success
                     /\ documents'[d].chunk_count = ingests[j].vector_result.chunk_count
                     /\ documents'[d].pinecone_ids = ingests[j].vector_result.pinecone_ids
                     /\ \A i \in 1..Len(documents'[d].pinecone_ids) :
                           documents'[d].pinecone_ids[i] \in DOMAIN index]_vars

\* C26 witness: one upload is at its embedding step with its record stored
\* as processing and without counts, and another has had its counts set
\* after its upsert.
C26_Witness ==
    \E j1, j2 \in 1..MaxIngests :
        /\ ingests[j1].pc = "vector"
        /\ ingests[j1].document_id \in DOMAIN documents
        /\ documents[ingests[j1].document_id].processing_status = "processing"
        /\ documents[ingests[j1].document_id].chunk_count = 0
        /\ ingests[j2].pc = "chunks"
        /\ ingests[j2].document_id \in DOMAIN documents
        /\ documents[ingests[j2].document_id].chunk_count > 0
        /\ documents[ingests[j2].document_id].pinecone_ids # <<>>

\* the names that a lookup returning `results` gives to document_ids: the
\* indexed filename of a document the lookup found, the placeholder for one
\* it did not
NamesFrom(results, document_ids) ==
    [i \in 1..Len(document_ids) |->
        IF \E k \in 1..Len(results) :
               results[k].metadata.document_id = document_ids[i]
        THEN "a name found"
        ELSE "placeholder"]

\* names is what a lookup returning `results` gives to document_ids
NamedBy(names, results, document_ids) ==
    /\ Len(names) = Len(document_ids)
    /\ \A i \in 1..Len(document_ids) :
          IF NamesFrom(results, document_ids)[i] = "placeholder"
          THEN names[i] = PlaceholderName(document_ids[i])
          ELSE \E k \in 1..Len(results) :
                  /\ results[k].metadata.document_id = document_ids[i]
                  /\ names[i] = results[k].metadata.filename

C28_DeniedDeleteChangesNothing ==
    [][/\ \A k \in 1..MaxDeletes :
             /\ (deletes[k].pc = "idle" /\ deletes'[k].pc # "idle") =>
                   LET c == GetById(conversations, deletes'[k].conversation_id)
                   IN (c = None \/ c.user_id # deletes'[k].user_id) =>
                         /\ deletes'[k].pc = "rejected"
                         /\ deletes'[k].response.status = 404
                         /\ UNCHANGED <<db, index>>
             /\ deletes[k].pc = "rejected" => deletes'[k] = deletes[k]
       /\ (lastCall' # lastCall /\ lastCall'.fn = "delete_document") =>
             LET document == GetById(documents, lastCall'.document_id)
             IN (document = None \/ document.user_id # lastCall'.user_id) =>
                   /\ lastCall'.result.success = FALSE
                   /\ UNCHANGED <<db, index>>]_vars

\* C28 witness: user B was refused the deletion of a conversation of A that
\* holds messages and the deletion of a document of A that has chunk
\* records and vectors.
C28_Witness ==
    /\ \E k \in 1..MaxDeletes :
          /\ deletes[k].pc = "rejected" /\ deletes[k].access = "foreign"
          /\ SelectConv(messages, deletes[k].conversation_id) # <<>>
    /\ lastCall # None
    /\ lastCall.fn = "delete_document"
    /\ ~lastCall.result.success
    /\ lastCall.document_id \in DOMAIN documents
    /\ documents[lastCall.document_id].pinecone_ids # <<>>
    /\ \E c \in chunks : c.document_id = lastCall.document_id

\* C29 (as claimed): when process_document returns a failure of the vector
\* stage for a document whose provisional record it had inserted and has
\* now deleted, the index holds no vector whose metadata names that document.
C29_FailedUploadLeavesNoVector ==
    [][\A j \in 1..MaxIngests :
          (/\ ingests[j].pc = "finish" /\ ingests'[j].pc = "done"
           /\ ~ingests[j].vector_result.success
           /\ ~ingests'[j].response.success
           /\ ingests[j].document_id \notin DOMAIN documents') =>
              \A id \in DOMAIN index' :
                  index'[id].metadata.document_id # ingests[j].document_id]_vars

====
